---- MODULE Spec2Model ----
(***************************************************************************)
(* The Probit model of bss/models/probit.py: construction, the MCMC run    *)
(* loop (run_mcmc), one parameter sweep (update_parameters and the five    *)
(* update_* operations) and the two memoised distribution methods          *)
(* (probit_distribution, ppi_distribution) with their cachetools caches.   *)
(*                                                                         *)
(* Real-valued quantities are carried on small integer grids:              *)
(*   xi      k stands for k / XiOne, so 0 < xi < 1 is 0 < k < XiOne;       *)
(*   gamma   a P-vector over Levels; gamma0 a level; inclusion is          *)
(*           gamma[j] > gamma0 as in the source;                           *)
(*   lamb    an integer, candidates reach 0 and below;                     *)
(*   nu      a positive integer.                                           *)
(* Log-densities are integer surrogates that depend on the same arguments  *)
(* as the source expressions; NegInf stands for -np.inf.                   *)
(*                                                                         *)
(* The chain specification (Spec) uses probit_distribution and             *)
(* ppi_distribution through the values they return and leaves the cache    *)
(* variables alone; the caches are exercised by direct calls of the two    *)
(* methods in the specification SpecCache.                                 *)
(*                                                                         *)
(* bss.mvn.Mvn, bss.samplers.slice.SliceSampler and                        *)
(* bss.samplers.elliptical.EllipticalSliceSampler are not part of the      *)
(* source tree at hand; their operators are written from the design        *)
(* description of those components.                                       *)
(***************************************************************************)
EXTENDS Integers, Sequences, FiniteSets, TLC

(* ------------------------------ bounds -------------------------------- *)
XiOne == 4          \* grid for xi: the value k is k / XiOne
MaxLevel == 1       \* gamma entries and gamma0 range over 0..MaxLevel
MaxLamb == 2        \* lamb ranges over 1..MaxLamb, candidates from -1
MaxNu == 2          \* nu ranges over 1..MaxNu
MaxIters == 2       \* run_mcmc: iters in 0..MaxIters
MaxBurnIn == 1      \* run_mcmc: burn_in in 0..MaxBurnIn
MaxSweeps == 2      \* run_mcmc: burn_in + iters is at most MaxSweeps
MaxCalls == 5       \* direct calls of the memoised methods

(* ------------------------- program constants -------------------------- *)
ProbitCacheMaxsize == 4
PpiCacheMaxsize == 8

(* The data shape: X is N x P. *)
Predictors == {1, 2}
P == Cardinality(Predictors)
Samples == {1, 2}
N == Cardinality(Samples)

Levels == 0..MaxLevel
GammaVals == [Predictors -> Levels]
LambVals == 1..MaxLamb
LambCands == (-1)..MaxLamb
NuVals == 1..MaxNu
XiCands == 0..XiOne
XiOpen == 1..(XiOne - 1)

NegInf == -1000     \* stands for -np.inf
NaN == NegInf - 1   \* stands for a not-a-number density (non-finite Y)
NoXi == -1          \* stands for the argument xi=None

VARIABLES
    \* constructor arguments and fixed data
    X, Y, R, check_finite, xi_arg, nu_a, nu_b,
    \* chain state
    gamma, gamma0, lamb, nu, xi, sample_xi,
    \* control: position in the constructor / run_mcmc / update_parameters
    pc, error,
    \* run_mcmc arguments and locals
    iters, burn_in, detailed, i, log_joint, log_like,
    logjoint_trace, detail_trace, mean_inclusion, map_inclusion,
    \* the two caches and the count of Mvn objects constructed
    probit_cache, ppi_cache, mvn_count,
    \* observation of the execution (not program state)
    obs

inputs == <<X, Y, R, check_finite, xi_arg, nu_a, nu_b>>
chain == <<gamma, gamma0, lamb, nu, xi, sample_xi>>
runvars == <<iters, burn_in, detailed, i, log_joint, log_like,
             logjoint_trace, detail_trace, mean_inclusion, map_inclusion>>
caches == <<probit_cache, ppi_cache, mvn_count>>
vars == <<inputs, chain, pc, error, runvars, caches, obs>>

(* ---------------------- Mvn (bss.mvn, from the design) ----------------- *)
(* A covariance is carried by what decides the outcome of building and     *)
(* using its Mvn: whether it holds a non-finite entry and whether its      *)
(* decomposition fails (a linear-algebra error).                           *)
MvnNew(cov) ==
    IF ~cov.finite THEN "NonFinite"
    ELSE IF cov.singular THEN "LinAlgError"
    ELSE "ok"

(* whiten / correlate: inverse maps of each other for one distribution,    *)
(* different maps for different xi.                                        *)
MvnWhiten(x, g) == [j \in Predictors |-> (g[j] + x) % (MaxLevel + 1)]
MvnCorrelate(x, w) ==
    [j \in Predictors |-> (w[j] + x * MaxLevel) % (MaxLevel + 1)]

(* ------------------------- Probit: pure parts -------------------------- *)
Inclusion(g, g0) == {j \in Predictors : g[j] > g0}

\* probit_distribution: the covariance xi * R.cov + (1 - xi) * I
ProbitCov(x) == [finite |-> R.finite, singular |-> x \in R.singular_at]

\* ppi_distribution: the covariance (X_m X_m^T + 1 1^T) / lamb + I, where
\* X_m keeps the columns with gamma > gamma0; lamb = 0 divides by zero.
PpiCov(g, g0, l) ==
    [finite |-> X.finite /\ l # 0, singular |-> Inclusion(g, g0) \in X.ill]

\* Mvn.maha(Y) of the PPI distribution (surrogate, non-negative)
Maha(g, g0, l) == Cardinality(Predictors \ Inclusion(g, g0)) + l

\* A density evaluation: a value, or the exception it raises.
Val(v) == [val |-> v, err |-> "none"]
Exc(e) == [val |-> NaN, err |-> e]

\* log_marg_like: ppi_distribution(gamma, gamma0, lamb).logpdf(Y, nu)
log_marg_like(g, g0, l, n) ==
    IF MvnNew(PpiCov(g, g0, l)) # "ok" THEN Exc(MvnNew(PpiCov(g, g0, l)))
    ELSE IF ~Y.finite THEN Val(NaN)
    ELSE Val(0 - n * Maha(g, g0, l))

\* prior log-densities (surrogates of the scipy distributions)
gamma0_logpdf(g0) == 0 - (MaxLevel - g0)
lambda_logpdf(l) == 0 - l
nu_logpdf(n) == 0 - n
xi_logpdf(x) == 0
probit_logpdf(x, g) ==
    0 - Cardinality({j \in Predictors : g[j] > 0}) * x

Plus(r, v) == IF r.err # "none" \/ r.val = NaN THEN r ELSE Val(r.val + v)

\* log_joint: the sum of the marginal likelihood and the prior densities
log_joint_value ==
    IF MvnNew(ProbitCov(xi)) # "ok" /\ log_marg_like(gamma, gamma0, lamb, nu).err = "none"
    THEN Exc(MvnNew(ProbitCov(xi)))
    ELSE Plus(log_marg_like(gamma, gamma0, lamb, nu),
              gamma0_logpdf(gamma0) + nu_logpdf(nu) + lambda_logpdf(lamb)
              + probit_logpdf(xi, gamma)
              + (IF sample_xi THEN xi_logpdf(xi) ELSE 0))

(* ------------------------- the memoised methods ----------------------- *)
\* An argument is a scalar or an ndarray; an ndarray is an object (id) with
\* its content (data).
Scalar(v) == [kind |-> "scalar", value |-> v]
NdArray(id, g) == [kind |-> "ndarray", id |-> id, data |-> g]
ArgValue(a) == IF a.kind = "ndarray" THEN a.data ELSE a.value
ArgValues(args) == [k \in DOMAIN args |-> ArgValue(args[k])]

\* arg.data.tobytes(): the entries in index order
ToBytes(a) == [k \in 1..P |-> a.data[k]]

\* hash of a sequence of small non-negative numbers: positional, in a base
\* above every digit, so that different sequences get different hashes
HashBase == MaxLevel + MaxLamb + XiOne + 2
RECURSIVE Hash(_)
Hash(t) ==
    IF Len(t) = 0 THEN 1
    ELSE Hash(SubSeq(t, 1, Len(t) - 1)) * HashBase + t[Len(t)]

\* a key that takes an ndarray by its identity instead of its content
cache_key_by_identity(args) ==
    Hash([k \in DOMAIN args |->
            IF args[k].kind = "ndarray" THEN HashBase * HashBase + args[k].id
            ELSE args[k].value])

\* _cache_key (line 111): the hash of the tuple of the arguments, an ndarray
\* replaced by the hash of its bytes
cache_key(args) ==
    Hash([k \in DOMAIN args |->
            IF args[k].kind = "ndarray" THEN Hash(ToBytes(args[k]))
            ELSE args[k].value])

\* cachetools.Cache.__setitem__ on a miss: while the cache is full, popitem()
\* discards an item; Cache.popitem() takes next(iter(self)), the first key of
\* the underlying dict, which keeps the keys in the order they were stored
\* and which no lookup reorders.  Every entry is stored when its object is
\* constructed, so the first key is the entry with the oldest object.
\* victim is that entry, or none (<<>>) while there is room.
Victims(cache, maxsize) ==
    IF Cardinality(cache) + 1 > maxsize
    THEN {<<CHOOSE e \in cache : \A f \in cache : e.obj <= f.obj>>}
    ELSE {<<>>}

Stored(cache, victim, entry) ==
    (cache \ {victim[k] : k \in DOMAIN victim}) \cup {entry}

Lookup(cache, k) == {e \in cache : e.key = k}

\* recency (least recently used first) after a use of key k
Touch(rec, k) == SelectSeq(rec, LAMBDA q : q # k) \o <<k>>
Drop(rec, victim) ==
    SelectSeq(rec, LAMBDA q : \A m \in DOMAIN victim : victim[m].key # q)

(* ------------------------------ inputs --------------------------------- *)
\* The arrays are carried by what the model reads of them: whether they hold
\* a non-finite entry, and where the decompositions built from them fail
\* (R: the xi at which xi * R + (1 - xi) * I has no decomposition; X: the
\* inclusion sets for which the PPI covariance has none).
FiniteX == [finite |-> TRUE, ill |-> {}]
FiniteY == [finite |-> TRUE]
FiniteR == [finite |-> TRUE, singular_at |-> {}]
DefaultArgs ==
    [X |-> FiniteX, Y |-> FiniteY, R |-> FiniteR, check_finite |-> TRUE,
     xi |-> NoXi, nu_params |-> <<1, 1>>]

\* Each case changes one argument of the default construction.
InputCases ==
    {[DefaultArgs EXCEPT !.xi = k] : k \in XiCands \cup {NoXi}}
    \cup {[DefaultArgs EXCEPT !.nu_params = <<2, 1>>]}
    \cup {[DefaultArgs EXCEPT !.X = [finite |-> TRUE, ill |-> {Predictors}]]}
    \cup {[DefaultArgs EXCEPT !.R = [finite |-> TRUE, singular_at |-> {k}]] : k \in XiOpen}
    \cup {[DefaultArgs EXCEPT !.R = [finite |-> TRUE, singular_at |-> {XiOne}],
                              !.xi = XiOne]}
    \cup {[DefaultArgs EXCEPT !.check_finite = c, !.X = [finite |-> FALSE, ill |-> {}]]
            : c \in BOOLEAN}
    \cup {[DefaultArgs EXCEPT !.check_finite = c, !.Y = [finite |-> FALSE]]
            : c \in BOOLEAN}
    \cup {[DefaultArgs EXCEPT !.check_finite = c,
                              !.R = [finite |-> FALSE, singular_at |-> {}]]
            : c \in BOOLEAN}

ZeroGamma == [j \in Predictors |-> 0]

\* prior means (lines 77, 84, 86, 88)
xi_prior_mean == XiOne \div 2
gamma0_prior_mean == MaxLevel
lambda_prior_mean == 1

NoCall == [cache |-> "none", args |-> <<>>, known |-> FALSE, hit |-> FALSE,
           obj |-> 0, count_before |-> 0, evicted |-> <<>>, lru |-> <<>>]
NoSeen == [gamma |-> ZeroGamma, gamma0 |-> 0, lamb |-> 0, nu |-> 0, xi |-> 0]
Obs0 ==
    [sweep_log |-> <<>>,          \* the updates done in the sweep under way
     written |-> <<>>,            \* what they wrote, in order
     seen |-> NoSeen,             \* what the latest update read of the
                                  \* parameters updated before it
     nu_post |-> <<0, 0>>,        \* 2 * shape and 2 * rate of the last nu draw
     raised_at |-> "none",        \* where the exception came from
     n_updates |-> 0,             \* calls of update_parameters
     n_calls |-> 0,               \* direct calls of the memoised methods
     writes |-> <<>>,             \* per trace index: times written
     joint_incl |-> <<>>,         \* per trace index: inclusion when log_joint ran
     probit_recency |-> <<>>,     \* probit cache keys, least recently used first
     ppi_recency |-> <<>>,        \* PPI cache keys, least recently used first
     last_call |-> NoCall]        \* the latest direct call of a memoised method

Init ==
    /\ \E a \in InputCases :
         /\ X = a.X /\ Y = a.Y /\ R = a.R
         /\ check_finite = a.check_finite
         /\ xi_arg = a.xi
         /\ nu_a = a.nu_params[1] /\ nu_b = a.nu_params[2]
    /\ gamma = ZeroGamma /\ gamma0 = 0 /\ lamb = 0 /\ nu = 0 /\ xi = 0
    /\ sample_xi = FALSE
    /\ pc = "new" /\ error = "none"
    /\ iters = 0 /\ burn_in = 0 /\ detailed = FALSE /\ i = 0
    /\ log_joint = 0 /\ log_like = 0
    /\ logjoint_trace = <<>> /\ detail_trace = <<>>
    /\ mean_inclusion = <<>> /\ map_inclusion = {}
    /\ probit_cache = {} /\ ppi_cache = {} /\ mvn_count = 0
    /\ obs = Obs0

Raise(e, where) ==
    /\ pc' = "raised" /\ error' = e
    /\ obs' = [obs EXCEPT !.raised_at = where]

(* Probit.__init__ (lines 64-104).  Mvn(cov=R) is built first; X and Y are *
 * only stored (X for its shape); check_finite is stored and not used.     *
 * The last statement builds probit_distribution(xi) and draws gamma.      *)
Construct ==
    LET x0 == IF xi_arg = NoXi THEN xi_prior_mean ELSE xi_arg
        r_mvn == MvnNew([finite |-> R.finite, singular |-> FALSE])
        failure == IF r_mvn # "ok" THEN r_mvn ELSE MvnNew(ProbitCov(x0))
    IN
    /\ pc = "new"
    /\ UNCHANGED <<inputs, runvars, ppi_cache>>
    /\ IF failure # "ok"
       THEN /\ Raise(failure, "__init__")
            /\ UNCHANGED <<chain, probit_cache, mvn_count>>
       ELSE /\ sample_xi' = (xi_arg = NoXi)
            /\ xi' = x0
            /\ gamma0' = gamma0_prior_mean
            /\ lamb' = lambda_prior_mean
            /\ nu' = nu_a \div nu_b
            /\ gamma' \in GammaVals
            /\ pc' = "ready" /\ error' = error
            /\ mvn_count' = mvn_count + 1
            /\ probit_cache' = {[key |-> cache_key(<<Scalar(x0)>>), obj |-> mvn_count + 1,
                                 made_from |-> <<Scalar(x0)>>]}
            /\ obs' = [obs EXCEPT !.probit_recency = <<cache_key(<<Scalar(x0)>>)>>]

(* ------------------------------ run_mcmc ------------------------------- *)
Zeros(n) == [k \in 1..n |-> 0]
ZeroDetail ==
    [inclusion |-> {}, gamma0 |-> 0, lambda |-> 0, nu |-> 0, xi |-> 0,
     likelihood |-> 0]

\* a loop that forgets the burn-in sweeps
first_index_no_burn_in(b) == 0

\* line 268: range(-burn_in, iters) starts at -burn_in
first_index(b) == 0 - b

\* lines 259-268: the traces are allocated, the loop index starts at -burn_in
RunMcmc(it, b, d) ==
    /\ pc = "ready"
    /\ it + b <= MaxSweeps
    /\ iters' = it /\ burn_in' = b /\ detailed' = d
    /\ logjoint_trace' = Zeros(it)
    /\ detail_trace' = IF d THEN [k \in 1..it |-> ZeroDetail] ELSE <<>>
    /\ i' = first_index(b)
    /\ pc' = IF first_index(b) < it THEN "loop" ELSE "return"
    /\ obs' = [obs EXCEPT !.writes = Zeros(it), !.joint_incl = [k \in 1..it |-> {}]]
    /\ UNCHANGED <<inputs, chain, error, log_joint, log_like, mean_inclusion,
                   map_inclusion, caches>>

\* update_parameters that calls update_xi whether or not xi is sampled
update_parameters_always_xi(at) ==
    CASE at = "call" -> "update_gamma"
      [] at = "update_gamma" -> "update_gamma0"
      [] at = "update_gamma0" -> "update_lambda"
      [] at = "update_lambda" -> "update_nu"
      [] at = "update_nu" -> "update_xi"
      [] at = "update_xi" -> "record"

\* update_parameters with the first two updates exchanged
update_parameters_gamma0_first(at) ==
    CASE at = "call" -> "update_gamma0"
      [] at = "update_gamma0" -> "update_gamma"
      [] at = "update_gamma" -> "update_lambda"
      [] at = "update_lambda" -> "update_nu"
      [] at = "update_nu" -> IF sample_xi THEN "update_xi" ELSE "record"
      [] at = "update_xi" -> "record"

\* update_parameters (lines 311-316): where control goes after each step;
\* "call" is the entry of update_parameters.
update_parameters(at) ==
    CASE at = "call" -> "update_gamma"
      [] at = "update_gamma" -> "update_gamma0"
      [] at = "update_gamma0" -> "update_lambda"
      [] at = "update_lambda" -> "update_nu"
      [] at = "update_nu" -> IF sample_xi THEN "update_xi" ELSE "record"
      [] at = "update_xi" -> "record"

\* lines 269-277: log_joint and log_like of the state before the sweep, then
\* the call of update_parameters
LoopHead ==
    LET lj == log_joint_value
        ll == log_marg_like(gamma, gamma0, lamb, nu)
    IN
    /\ pc = "loop"
    /\ UNCHANGED <<inputs, chain, iters, burn_in, detailed, i, logjoint_trace,
                   detail_trace, mean_inclusion, map_inclusion, caches>>
    /\ IF lj.err # "none"
       THEN /\ Raise(lj.err, "log_joint")
            /\ UNCHANGED <<log_joint, log_like>>
       ELSE /\ log_joint' = lj.val
            /\ log_like' = ll.val
            /\ pc' = update_parameters("call")
            /\ error' = error
            /\ obs' = [obs EXCEPT
                         !.n_updates = @ + 1,
                         !.joint_incl = IF i >= 0
                                        THEN [@ EXCEPT ![i + 1] = Inclusion(gamma, gamma0)]
                                        ELSE @]

(* ---------------- samplers (bss.samplers, from the design) ------------- *)
\* SliceSampler: the level is y = f(x0) - Exp(1); a candidate c is accepted
\* when f(c) >= y.  With f(x0) finite, y is finite and can lie anywhere
\* below f(x0), so every candidate of finite density can be accepted and no
\* candidate of density -inf can; a NaN compares false with everything.
SliceAccepts(fx0, fc) ==
    IF fx0 = NaN \/ fc = NaN THEN FALSE
    ELSE IF fx0 = NegInf THEN TRUE
    ELSE fc # NegInf

\* EllipticalSliceSampler: y = log_like_fn(x0) + log(U); a proposal x' is
\* accepted when log_like_fn(x') > y.
EllipticalAccepts(l0, lc) ==
    IF l0 = NaN \/ lc = NaN THEN FALSE ELSE lc # NegInf

(* --------------------------- the five updates -------------------------- *)
\* the chain state as an update reads it (self.gamma, self.gamma0, ...)
self == [gamma |-> gamma, gamma0 |-> gamma0, lamb |-> lamb, nu |-> nu, xi |-> xi]

\* the parameters that come before each one in the sweep
Earlier ==
    [gamma |-> {}, gamma0 |-> {"gamma"}, lamb |-> {"gamma", "gamma0"},
     nu |-> {"gamma", "gamma0", "lamb"}, xi |-> {"gamma", "gamma0", "lamb", "nu"}]

Did(o, name, value) ==
    [o EXCEPT !.sweep_log = Append(@, name),
              !.written = Append(@, value),
              !.seen = [p \in DOMAIN NoSeen |->
                          IF p \in Earlier[name] THEN self[p] ELSE NoSeen[p]]]

\* the observations of one sweep are dropped when the sweep is over
Forget(o) ==
    [o EXCEPT !.sweep_log = <<>>, !.written = <<>>, !.seen = NoSeen,
              !.nu_post = <<0, 0>>]

Diverge == /\ pc' = "diverged" /\ error' = error /\ obs' = obs

\* update_gamma (lines 338-341): one elliptical slice step on gamma with the
\* prior probit_distribution(xi) and the likelihood log_marg_like(., gamma0,
\* lamb, nu)
update_gamma ==
    LET prior == MvnNew(ProbitCov(self.xi))
        log_like_fn(g) == log_marg_like(g, self.gamma0, self.lamb, self.nu)
        l0 == log_like_fn(self.gamma)
    IN
    /\ pc = "update_gamma"
    /\ UNCHANGED <<inputs, gamma0, lamb, nu, xi, sample_xi, runvars, caches>>
    /\ IF prior # "ok" \/ l0.err # "none"
       THEN /\ Raise(IF prior # "ok" THEN prior ELSE l0.err, "update_gamma")
            /\ gamma' = gamma
       ELSE IF ~EllipticalAccepts(l0.val, l0.val)
       THEN /\ Diverge
            /\ gamma' = gamma
       ELSE \E g \in GammaVals :
            IF log_like_fn(g).err # "none"
            THEN /\ Raise(log_like_fn(g).err, "update_gamma")
                 /\ gamma' = gamma
            ELSE /\ EllipticalAccepts(l0.val, log_like_fn(g).val)
                 /\ gamma' = g
                 /\ pc' = update_parameters(pc) /\ error' = error
                 /\ obs' = Did(obs, "gamma", g)

\* update_gamma0 (lines 411-414): one slice step on gamma0
update_gamma0 ==
    LET slice_fn(g0) ==
            Plus(log_marg_like(self.gamma, g0, self.lamb, self.nu), gamma0_logpdf(g0))
        f0 == slice_fn(self.gamma0)
    IN
    /\ pc = "update_gamma0"
    /\ UNCHANGED <<inputs, gamma, lamb, nu, xi, sample_xi, runvars, caches>>
    /\ IF f0.err # "none"
       THEN /\ Raise(f0.err, "update_gamma0")
            /\ gamma0' = gamma0
       ELSE \E c \in Levels :
            IF slice_fn(c).err # "none"
            THEN /\ Raise(slice_fn(c).err, "update_gamma0")
                 /\ gamma0' = gamma0
            ELSE /\ SliceAccepts(f0.val, slice_fn(c).val)
                 /\ gamma0' = c
                 /\ pc' = update_parameters(pc) /\ error' = error
                 /\ obs' = Did(obs, "gamma0", c)

\* the closure of update_lambda (lines 389-392); stage tells how far the
\* evaluation went: "support" (returned at the guard) or "likelihood"
lambda_slice_fn(c) ==
    IF c < 0 THEN [val |-> NegInf, err |-> "none", stage |-> "support"]
    ELSE LET r == Plus(log_marg_like(self.gamma, self.gamma0, c, self.nu),
                       lambda_logpdf(c))
         IN [val |-> r.val, err |-> r.err, stage |-> "likelihood"]

\* update_lambda (lines 389-394): one slice step on lamb; c is a candidate
\* the sampler hands to the closure: it raises, or it is accepted
update_lambda ==
    LET f0 == lambda_slice_fn(self.lamb) IN
    /\ pc = "update_lambda"
    /\ UNCHANGED <<inputs, gamma, gamma0, nu, xi, sample_xi, runvars, caches>>
    /\ IF f0.err # "none"
       THEN /\ Raise(f0.err, "update_lambda")
            /\ lamb' = lamb
       ELSE \E c \in LambCands :
            IF lambda_slice_fn(c).err # "none"
            THEN /\ Raise(lambda_slice_fn(c).err, "update_lambda")
                 /\ lamb' = lamb
            ELSE /\ SliceAccepts(f0.val, lambda_slice_fn(c).val)
                 /\ lamb' = c
                 /\ pc' = update_parameters(pc) /\ error' = error
                 /\ obs' = Did(obs, "lamb", c)

\* a rate that takes the whole distance instead of half of it
nu_posterior_whole_distance ==
    <<2 * nu_a + N, 2 * nu_b + 2 * Maha(self.gamma, self.gamma0, self.lamb)>>

\* update_nu (lines 367-373): the conjugate draw.  Twice the shape and twice
\* the rate are carried, so that N / 2 and maha / 2 stay integers.
nu_posterior ==
    <<2 * nu_a + N, 2 * nu_b + Maha(self.gamma, self.gamma0, self.lamb)>>

update_nu ==
    LET ppi == MvnNew(PpiCov(self.gamma, self.gamma0, self.lamb))
        post == nu_posterior
    IN
    /\ pc = "update_nu"
    /\ UNCHANGED <<inputs, gamma, gamma0, lamb, xi, sample_xi, runvars, caches>>
    /\ IF ppi # "ok" \/ post[1] <= 0 \/ post[2] <= 0
       THEN /\ Raise(IF ppi # "ok" THEN ppi ELSE "ValueError", "update_nu")
            /\ nu' = nu
       ELSE \E n \in NuVals :
            /\ nu' = n
            /\ pc' = update_parameters(pc) /\ error' = error
            /\ obs' = [Did(obs, "nu", n) EXCEPT !.nu_post = post]

\* the closure without its support guard
xi_slice_fn_unguarded(c, w) ==
    IF MvnNew(ProbitCov(c)) = "LinAlgError"
    THEN [val |-> NegInf, err |-> "none", stage |-> "caught"]
    ELSE IF MvnNew(ProbitCov(c)) # "ok"
    THEN [val |-> NaN, err |-> MvnNew(ProbitCov(c)), stage |-> "correlate"]
    ELSE LET r == Plus(log_marg_like(MvnCorrelate(c, w), self.gamma0, self.lamb,
                                     self.nu),
                       xi_logpdf(c))
         IN [val |-> r.val, err |-> r.err, stage |-> "likelihood"]

\* the closure without its try / except
xi_slice_fn_no_except(c, w) ==
    IF c <= 0 \/ c >= XiOne
    THEN [val |-> NegInf, err |-> "none", stage |-> "support"]
    ELSE IF MvnNew(ProbitCov(c)) # "ok"
    THEN [val |-> NaN, err |-> MvnNew(ProbitCov(c)), stage |-> "correlate"]
    ELSE LET r == Plus(log_marg_like(MvnCorrelate(c, w), self.gamma0, self.lamb,
                                     self.nu),
                       xi_logpdf(c))
         IN [val |-> r.val, err |-> r.err, stage |-> "likelihood"]

\* the closure of update_xi (lines 429-438) for the whitened vector w; stage
\* tells where the evaluation ended: at the support guard, in the except
\* clause ("caught"), in the try body with another exception ("correlate"),
\* or in the else clause ("likelihood")
xi_slice_fn(c, w) ==
    IF c <= 0 \/ c >= XiOne
    THEN [val |-> NegInf, err |-> "none", stage |-> "support"]
    ELSE IF MvnNew(ProbitCov(c)) = "LinAlgError"
    THEN [val |-> NegInf, err |-> "none", stage |-> "caught"]
    ELSE IF MvnNew(ProbitCov(c)) # "ok"
    THEN [val |-> NaN, err |-> MvnNew(ProbitCov(c)), stage |-> "correlate"]
    ELSE LET r == Plus(log_marg_like(MvnCorrelate(c, w), self.gamma0, self.lamb,
                                     self.nu),
                       xi_logpdf(c))
         IN [val |-> r.val, err |-> r.err, stage |-> "likelihood"]

\* update_xi (lines 427-441): whiten gamma under the current xi, one slice
\* step on xi, then gamma is correlated again under the accepted xi
update_xi ==
    LET whitened == MvnWhiten(self.xi, self.gamma)
        f0 == xi_slice_fn(self.xi, whitened)
    IN
    /\ pc = "update_xi"
    /\ UNCHANGED <<inputs, gamma0, lamb, nu, sample_xi, runvars, caches>>
    /\ IF MvnNew(ProbitCov(self.xi)) # "ok"
       THEN /\ Raise(MvnNew(ProbitCov(self.xi)), "update_xi.whiten")
            /\ UNCHANGED <<gamma, xi>>
       ELSE IF f0.err # "none"
       THEN /\ Raise(f0.err, "update_xi.slice_fn." \o f0.stage)
            /\ UNCHANGED <<gamma, xi>>
       ELSE \E c \in XiCands :
            LET fc == xi_slice_fn(c, whitened) IN
            IF fc.err # "none"
            THEN /\ Raise(fc.err, "update_xi.slice_fn." \o fc.stage)
                 /\ UNCHANGED <<gamma, xi>>
            ELSE /\ SliceAccepts(f0.val, fc.val)
                 /\ xi' = c
                 /\ IF MvnNew(ProbitCov(c)) # "ok"
                    THEN /\ Raise(MvnNew(ProbitCov(c)), "update_xi.correlate")
                         /\ gamma' = gamma
                    ELSE /\ gamma' = MvnCorrelate(c, whitened)
                         /\ pc' = update_parameters(pc) /\ error' = error
                         /\ obs' = Did(obs, "xi", c)

\* lines 279-287: the traces of a kept sweep
Record ==
    /\ pc = "record"
    /\ IF i >= 0
       THEN /\ logjoint_trace' = [logjoint_trace EXCEPT ![i + 1] = log_joint]
            /\ detail_trace' =
                 IF detailed
                 THEN [detail_trace EXCEPT ![i + 1] =
                         [inclusion |-> Inclusion(gamma, gamma0), gamma0 |-> gamma0,
                          lambda |-> lamb, nu |-> nu, xi |-> xi,
                          likelihood |-> log_like]]
                 ELSE detail_trace
            /\ obs' = [Forget(obs) EXCEPT !.writes[i + 1] = @ + 1]
       ELSE /\ UNCHANGED <<logjoint_trace, detail_trace>>
            /\ obs' = Forget(obs)
    /\ i' = i + 1
    /\ pc' = IF i + 1 < iters THEN "loop" ELSE "return"
    /\ UNCHANGED <<inputs, chain, error, iters, burn_in, detailed, log_joint,
                   log_like, mean_inclusion, map_inclusion, caches>>

\* np.argmax: the first index of the largest entry
ArgMax(t) ==
    CHOOSE k \in 1..Len(t) :
        /\ \A m \in 1..Len(t) : t[m] <= t[k]
        /\ \A m \in 1..(k - 1) : t[m] < t[k]

\* lines 289-300: the returned value; mean_inclusion carries, per predictor,
\* the number of kept sweeps that include it (the mean times iters)
Return ==
    /\ pc = "return"
    /\ UNCHANGED <<inputs, chain, iters, burn_in, detailed, i, log_joint, log_like,
                   logjoint_trace, detail_trace, caches>>
    /\ IF detailed /\ iters = 0
       THEN /\ Raise("ValueError", "run_mcmc.argmax")
            /\ UNCHANGED <<mean_inclusion, map_inclusion>>
       ELSE /\ pc' = "returned" /\ error' = error /\ obs' = obs
            /\ mean_inclusion' =
                 IF detailed
                 THEN [j \in Predictors |->
                         Cardinality({k \in 1..iters : j \in detail_trace[k].inclusion})]
                 ELSE mean_inclusion
            /\ map_inclusion' =
                 IF detailed THEN detail_trace[ArgMax(logjoint_trace)].inclusion
                 ELSE map_inclusion

Next ==
    \/ Construct
    \/ \E it \in 0..MaxIters, b \in 0..MaxBurnIn, d \in BOOLEAN : RunMcmc(it, b, d)
    \/ LoopHead
    \/ update_gamma
    \/ update_gamma0
    \/ update_lambda
    \/ update_nu
    \/ update_xi
    \/ Record
    \/ Return

Spec == Init /\ [][Next]_vars

(* -------------- direct calls of the memoised methods ------------------- *)
\* cachedmethod (lines 113, 132): look the key up; on a miss call the method
\* and store its result.  covfail is the outcome of building the Mvn.
Observe(o, which, args, cache, rec, hit, obj, victim) ==
    [o EXCEPT !.n_calls = @ + 1,
              !.last_call =
                 [cache |-> which, args |-> args,
                  known |-> \E e \in cache : ArgValues(e.made_from) = ArgValues(args),
                  hit |-> hit, obj |-> obj, count_before |-> mvn_count,
                  evicted |-> [m \in DOMAIN victim |-> victim[m].key],
                  lru |-> IF Len(rec) = 0 THEN <<>> ELSE <<rec[1]>>]]

probit_distribution(x) ==
    LET args == <<Scalar(x)>>
        k == cache_key(args)
        found == Lookup(probit_cache, k)
    IN
    /\ pc = "ready"
    /\ obs.n_calls < MaxCalls
    /\ UNCHANGED <<inputs, chain, pc, error, runvars, ppi_cache>>
    /\ IF found # {}
       THEN /\ UNCHANGED <<probit_cache, mvn_count>>
            /\ obs' = [Observe(obs, "probit", args, probit_cache, obs.probit_recency,
                               TRUE, (CHOOSE e \in found : TRUE).obj, <<>>)
                         EXCEPT !.probit_recency = Touch(@, k)]
       ELSE IF MvnNew(ProbitCov(x)) # "ok"
       THEN /\ UNCHANGED <<probit_cache, mvn_count>>
            /\ obs' = [obs EXCEPT !.n_calls = @ + 1, !.last_call = NoCall]
       ELSE \E victim \in Victims(probit_cache, ProbitCacheMaxsize) :
            /\ mvn_count' = mvn_count + 1
            /\ probit_cache' =
                 Stored(probit_cache, victim,
                        [key |-> k, obj |-> mvn_count + 1, made_from |-> args])
            /\ obs' = [Observe(obs, "probit", args, probit_cache, obs.probit_recency,
                               FALSE, mvn_count + 1, victim)
                         EXCEPT !.probit_recency = Touch(Drop(@, victim), k)]

ppi_distribution(id, g, g0, l) ==
    LET args == <<NdArray(id, g), Scalar(g0), Scalar(l)>>
        k == cache_key(args)
        found == Lookup(ppi_cache, k)
    IN
    /\ pc = "ready"
    /\ obs.n_calls < MaxCalls
    /\ UNCHANGED <<inputs, chain, pc, error, runvars, probit_cache>>
    /\ IF found # {}
       THEN /\ UNCHANGED <<ppi_cache, mvn_count>>
            /\ obs' = [Observe(obs, "ppi", args, ppi_cache, obs.ppi_recency,
                               TRUE, (CHOOSE e \in found : TRUE).obj, <<>>)
                         EXCEPT !.ppi_recency = Touch(@, k)]
       ELSE IF MvnNew(PpiCov(g, g0, l)) # "ok"
       THEN /\ UNCHANGED <<ppi_cache, mvn_count>>
            /\ obs' = [obs EXCEPT !.n_calls = @ + 1, !.last_call = NoCall]
       ELSE \E victim \in Victims(ppi_cache, PpiCacheMaxsize) :
            /\ mvn_count' = mvn_count + 1
            /\ ppi_cache' =
                 Stored(ppi_cache, victim,
                        [key |-> k, obj |-> mvn_count + 1, made_from |-> args])
            /\ obs' = [Observe(obs, "ppi", args, ppi_cache, obs.ppi_recency,
                               FALSE, mvn_count + 1, victim)
                         EXCEPT !.ppi_recency = Touch(Drop(@, victim), k)]

\* the arguments of the direct calls: two array objects for each content
ArrayIds == {1, 2}
OnesGamma == [j \in Predictors |-> MaxLevel]
PpiCallArgs ==
    {<<id, g, 0, l>> : id \in ArrayIds, g \in {ZeroGamma, OnesGamma}, l \in {0, 1}}

InitCache == Init /\ xi_arg = NoXi /\ X = FiniteX /\ Y = FiniteY /\ R = FiniteR
             /\ check_finite /\ nu_a = 1

NextCache ==
    \/ Construct
    \/ \E x \in XiCands : probit_distribution(x)
    \/ \E a \in PpiCallArgs : ppi_distribution(a[1], a[2], a[3], a[4])

SpecCache == InitCache /\ [][NextCache]_vars

(* ============================== claims ================================= *)
Constructed == pc # "new" /\ obs.raised_at # "__init__"
SweepOrder == <<"gamma", "gamma0", "lamb", "nu", "xi">>
UpdatePcs == {"update_gamma", "update_gamma0", "update_lambda", "update_nu", "update_xi"}
PcOf == [gamma |-> "update_gamma", gamma0 |-> "update_gamma0", lamb |-> "update_lambda",
         nu |-> "update_nu", xi |-> "update_xi"]

\* C1: within every call of update_parameters the updates run in the order
\* gamma, gamma0, lambda, nu and then xi exactly when xi is sampled: what has
\* run so far is a prefix of that order, the update about to run is the next
\* one of it, the sweep ends with all four (five) done, and each update read
\* the earlier parameters with the values written in this same sweep.
C1_FixedOrder ==
    LET k == Len(obs.sweep_log) IN
    /\ k <= 5
    /\ \A m \in 1..k : obs.sweep_log[m] = SweepOrder[m]
    /\ pc \in UpdatePcs => k < 5 /\ pc = PcOf[SweepOrder[k + 1]]
    /\ pc = "update_xi" => sample_xi
    /\ pc = "record" => k = (IF sample_xi THEN 5 ELSE 4)
    /\ \A m \in 1..(k - 1) : obs.seen[SweepOrder[m]] = obs.written[m]

\* C1 witness: a second sweep of a sampled-xi chain is complete, and its
\* update of xi read a gamma0 that the previous sweep had left different.
C1_Witness ==
    /\ pc = "record" /\ sample_xi /\ detailed /\ i = 1
    /\ obs.sweep_log = SweepOrder
    /\ obs.seen.gamma0 # detail_trace[1].gamma0

\* C2: when a miss stores into a full cache, the entry discarded is the
\* least recently used one.
C2_EvictsLeastRecentlyUsed ==
    obs.last_call.evicted # <<>> => obs.last_call.evicted = obs.last_call.lru

\* C3: a call whose argument values equal those an entry of the cache was
\* made from returns that entry's Mvn object and constructs none; an ndarray
\* counts by its content, whichever object holds it.
C3_EqualArgumentsHit ==
    LET c == obs.last_call
        cache == IF c.cache = "probit" THEN probit_cache ELSE ppi_cache
    IN
    c.known =>
        /\ mvn_count = c.count_before
        /\ \E e \in cache :
             /\ e.obj = c.obj
             /\ ArgValues(e.made_from) = ArgValues(c.args)

\* C3 witness: ppi_distribution was called with an array object other than
\* the one its entry was made from, holding the same values, and hit.
C3_Witness ==
    /\ obs.last_call.cache = "ppi" /\ obs.last_call.known /\ obs.last_call.hit
    /\ \E e \in ppi_cache :
         /\ e.obj = obs.last_call.obj
         /\ e.made_from[1].id # obs.last_call.args[1].id
         /\ e.made_from[1].data = obs.last_call.args[1].data

\* C4: in detailed mode the recorded inclusion vector of every kept sweep is
\* the inclusion of the chain state whose joint log-density is recorded at
\* the same index, so the returned MAP vector is the inclusion of the state
\* with the highest recorded joint log-density.
C4_MapInclusionOfArgmaxState ==
    (pc = "returned" /\ detailed) =>
        /\ \A k \in 1..iters : detail_trace[k].inclusion = obs.joint_incl[k]
        /\ map_inclusion = obs.joint_incl[ArgMax(logjoint_trace)]

\* C5: run_mcmc(iters, burn_in) calls update_parameters burn_in + iters
\* times, its trace has iters entries, no entry is written during the
\* burn-in sweeps, and each entry is written exactly once, in the sweep of
\* its index.
C5_SweepsAndTrace ==
    (pc \notin {"new", "ready"} /\ Constructed) =>
        /\ Len(logjoint_trace) = iters
        /\ \A k \in 1..iters : obs.writes[k] = (IF k <= i THEN 1 ELSE 0)
        /\ pc \in UpdatePcs \cup {"record"} => obs.n_updates = burn_in + i + 1
        /\ pc = "returned" => obs.n_updates = burn_in + iters /\ i = iters

\* C5 witness: a run with one burn-in sweep and one kept sweep returned.
C5_Witness ==
    /\ pc = "returned" /\ burn_in = 1 /\ iters = 1
    /\ obs.n_updates = 2 /\ obs.writes = <<1>>

\* C6: in update_lambda the closure handed to the slice sampler returns
\* negative infinity for every candidate lamb <= 0, zero included, without
\* raising and without evaluating the marginal likelihood.
C6_NonPositiveLambdaRejected ==
    pc = "update_lambda" =>
        \A c \in LambCands :
            c <= 0 => lambda_slice_fn(c) =
                        [val |-> NegInf, err |-> "none", stage |-> "support"]

\* C7 as stated: 0 < xi < 1 in every state of a constructed model.
C7_XiInOpenInterval == Constructed => 0 < xi /\ xi < XiOne

\* C7: 0 < xi < 1 holds in every state of a constructed model whose xi is
\* sampled (from the prior mean on, and after any number of sweeps); a xi
\* fixed at construction is stored as given, unchecked, and keeps that value.
C7_SampledXiInOpenInterval ==
    Constructed =>
        /\ sample_xi = (xi_arg = NoXi)
        /\ sample_xi => 0 < xi /\ xi < XiOne
        /\ ~sample_xi => xi = xi_arg

\* C7 witness: a sweep of a sampled-xi chain has moved xi off its prior mean.
C7_Witness ==
    /\ sample_xi /\ pc = "record"
    /\ obs.sweep_log = SweepOrder
    /\ xi # xi_prior_mean /\ xi = obs.written[5]

\* C8: with check_finite enabled and a non-finite entry in X, Y or R the
\* construction fails: no model exists and no sweep runs.
C8_NonFiniteInputFailsConstruction ==
    (check_finite /\ ~(X.finite /\ Y.finite /\ R.finite)) =>
        /\ pc = "new" \/ obs.raised_at = "__init__"
        /\ obs.n_updates = 0

\* the candidates of update_xi inside the support
XiInSupport == {c \in XiCands : 0 < c /\ c < XiOne}

\* C9 as stated: no linear-algebra failure of a candidate's evaluation, in
\* the probit distribution or in the marginal likelihood, leaves update_xi.
C9_NoFailureLeavesCandidateEvaluation ==
    /\ obs.raised_at \notin {"update_xi.slice_fn.correlate", "update_xi.slice_fn.likelihood"}
    /\ pc = "update_xi" /\ MvnNew(ProbitCov(self.xi)) = "ok" =>
         \A c \in XiInSupport :
             xi_slice_fn(c, MvnWhiten(self.xi, self.gamma)).err # "LinAlgError"

\* C9: during update_xi a linear-algebra failure raised while constructing
\* or correlating through the candidate's probit distribution is caught and
\* becomes a log-density of negative infinity: the candidate is rejected, is
\* never the new xi, and that failure does not leave update_xi.  A failure
\* raised while evaluating the resulting gamma's marginal likelihood is
\* outside the try body and leaves the closure as raised.
C9_ProbitFailureCaught ==
    /\ obs.raised_at \notin {"update_xi.slice_fn.correlate", "update_xi.correlate"}
    /\ (Len(obs.sweep_log) = 5 /\ pc = "record") => xi \notin R.singular_at
    /\ pc = "update_xi" /\ MvnNew(ProbitCov(self.xi)) = "ok" =>
         \A c \in XiInSupport :
             LET w == MvnWhiten(self.xi, self.gamma)
                 like == log_marg_like(MvnCorrelate(c, w), self.gamma0, self.lamb,
                                       self.nu)
             IN
             /\ MvnNew(ProbitCov(c)) = "LinAlgError" =>
                    xi_slice_fn(c, w) =
                        [val |-> NegInf, err |-> "none", stage |-> "caught"]
             /\ (MvnNew(ProbitCov(c)) = "ok" /\ like.err # "none") =>
                    xi_slice_fn(c, w) =
                        [val |-> NaN, err |-> like.err, stage |-> "likelihood"]

\* C9 witness: update_xi is done in a chain where the probit distribution of
\* some candidate inside (0, 1) has no decomposition.
C9_Witness ==
    /\ pc = "record" /\ obs.sweep_log = SweepOrder
    /\ R.singular_at \cap XiInSupport # {}
    /\ xi \in XiInSupport \ R.singular_at

\* C10: update_nu draws nu from the Gamma distribution of shape nu_a + N / 2
\* and rate nu_b + maha / 2, maha being the distance of Y under the PPI
\* distribution of the gamma, gamma0 and lamb written earlier in the same
\* sweep; both are positive and nu > 0 after every update_nu.
C10_NuPosterior ==
    /\ Len(obs.sweep_log) >= 4 =>
         /\ obs.nu_post = <<2 * nu_a + N,
                            2 * nu_b + Maha(obs.written[1], obs.written[2],
                                            obs.written[3])>>
         /\ obs.nu_post[1] > 0 /\ obs.nu_post[2] > 0
         /\ obs.written[4] > 0
         /\ (Len(obs.sweep_log) = 4 => nu = obs.written[4])
    /\ (Constructed /\ pc # "raised") => nu > 0

\* C10 witness: the second update_nu of a chain with shape parameter 2, after
\* this sweep wrote a lamb other than the one the chain started with.
C10_Witness ==
    /\ Len(obs.sweep_log) = 4 /\ pc \in {"update_xi", "record"}
    /\ nu_a = 2 /\ obs.n_updates = 2
    /\ obs.written[3] # lambda_prior_mean

\* C11: each update changes only its own part of the chain state:
\* update_gamma only gamma, update_gamma0 only gamma0, update_lambda only
\* lamb, update_nu only nu, update_xi only xi and gamma, whether it completes
\* or raises; no step changes X, Y, R or the hyperparameters; and with xi
\* fixed at construction update_xi is never entered and xi keeps its value.
C11_UpdateFrames ==
    [][/\ inputs' = inputs
       /\ pc = "update_gamma" => UNCHANGED <<gamma0, lamb, nu, xi, sample_xi>>
       /\ pc = "update_gamma0" => UNCHANGED <<gamma, lamb, nu, xi, sample_xi>>
       /\ pc = "update_lambda" => UNCHANGED <<gamma, gamma0, nu, xi, sample_xi>>
       /\ pc = "update_nu" => UNCHANGED <<gamma, gamma0, lamb, xi, sample_xi>>
       /\ pc = "update_xi" => UNCHANGED <<gamma0, lamb, nu, sample_xi>>
       /\ (pc # "new" /\ ~sample_xi) => xi' = xi /\ pc' # "update_xi"
      ]_vars

\* C11 witness: a sweep of a sampled-xi chain is over in which update_xi
\* changed gamma after update_gamma had written it, and moved xi, while
\* gamma0, lamb and nu are as their own updates wrote them.
C11_Witness ==
    /\ pc = "record" /\ sample_xi /\ obs.n_updates = 2
    /\ obs.sweep_log = SweepOrder
    /\ gamma # obs.written[1] /\ xi = obs.written[5] /\ xi # xi_prior_mean
    /\ gamma0 = obs.written[2] /\ lamb = obs.written[3] /\ nu = obs.written[4]

====
